---- MODULE Spec2Model ----
(***************************************************************************)
(* Video Editing Agency API (src/main.py): contact capture and minimal     *)
(* email/password authentication over a document store.                    *)
(*                                                                         *)
(* Handlers are plain `def` routes, which the framework runs on a thread   *)
(* pool: requests interleave at their store round trips.  A handler with   *)
(* one store operation is one action; register, with two, is two actions.  *)
(* `last` is the request that completed most recently, as its client saw   *)
(* it.                                                                     *)
(***************************************************************************)
EXTENDS Integers, Sequences, FiniteSets, TLC

\* ------------------------------------------------------------- bounds
MaxSlots == 2
MaxUsers == 2
MaxContacts == 1
MaxTime == 1
MaxSkew == 2

\* ---------------------------------------------------- configuration
SECRET_KEY == "supersecretkeychange"
OtherKey == "someotherkey"
ACCESS_TOKEN_EXPIRE_MINUTES == 60 * 24

Slots == 1..MaxSlots
Salts == {"s1", "s2"}
Passwords == {"pw", "pw2"}

\* --------------------------------------------------------- e-mails
\* An address is the sequence of its parts around "@": "a@x.com" is
\* <<"a", "x.com">>, "a" is <<"a">>.
RawEmails ==
    { <<"a", "x.com">>, <<"a", "X.COM">>, <<"b", "x.com">>,
      <<"a">>, <<"a", "xcom">>, <<"", "x.com">>, <<"a", "b", "x.com">> }

\* The addresses /contact is sent.
ContactEmails == RawEmails \ { <<"b", "x.com">> }

DottedDomains == {"x.com", "X.COM"}

LowerDomain(d) == IF d = "X.COM" THEN "x.com" ELSE d

Invalid == <<>>

\* pydantic's EmailStr: a structural check (one "@", a non-empty local part,
\* a dotted domain) and the normalised address (domain lower-cased).
EmailStr_NoCheck(raw) ==
    IF Len(raw) = 2 THEN <<raw[1], LowerDomain(raw[2])>> ELSE raw

EmailStr(raw) ==
    IF Len(raw) = 2 /\ raw[1] # "" /\ raw[2] \in DottedDomains
    THEN <<raw[1], LowerDomain(raw[2])>>
    ELSE Invalid

\* AuthIn.email: what the register and login handlers receive.
AuthEmails == { EmailStr(raw) : raw \in RawEmails } \ {Invalid}

\* email.split("@")[0]
LocalPart(email) == email[1]

\* ------------------------------------------------- password hashing
\* bcrypt through passlib: the hash carries its salt; verification
\* recomputes the digest under that salt.
Digest(salt, password) == <<salt, password>>

get_password_hash(password, salt) ==
    [salt |-> salt, digest |-> Digest(salt, password)]

verify_password(plain_password, hashed_password) ==
    Digest(hashed_password.salt, plain_password) = hashed_password.digest

\* ----------------------------------------------------------- tokens
NoSub == <<>>

Sign(sub, exp, key) == [sub |-> sub, exp |-> exp, key |-> key]

Encode(sub, exp, key) ==
    [kind |-> "jwt", sub |-> sub, exp |-> exp, sig |-> Sign(sub, exp, key)]

NoToken == [kind |-> "none", sub |-> NoSub, exp |-> 0, sig |-> Sign(NoSub, 0, "")]
Malformed == [kind |-> "malformed", sub |-> NoSub, exp |-> 0, sig |-> Sign(NoSub, 0, "")]

NoDelta == -1

\* expires_delta or timedelta(minutes=ACCESS_TOKEN_EXPIRE_MINUTES): None and
\* a zero delta are both falsy.
create_access_token(sub, expires_delta, t) ==
    LET delta == IF expires_delta = NoDelta \/ expires_delta = 0
                 THEN ACCESS_TOKEN_EXPIRE_MINUTES
                 ELSE expires_delta
    IN Encode(sub, t + delta, SECRET_KEY)

\* jwt.decode(token, SECRET_KEY, algorithms=[ALGORITHM]): the signature must
\* be the key's over the claims, and exp must not be before now.
jwt_decode_NoExpiry(token, t) ==
    token.kind = "jwt" /\ token.sig = Sign(token.sub, token.exp, SECRET_KEY)

jwt_decode_ok(token, t) ==
    /\ token.kind = "jwt"
    /\ token.sig = Sign(token.sub, token.exp, SECRET_KEY)
    /\ ~(token.exp < t)

\* --------------------------------------------------- store adapter
\* database.py: create_document(collection, doc), get_documents(collection,
\* filter, limit) and the handle db (None when the store is not configured).
NoDatabase == "Database not available"
LongError ==
    "ServerSelectionTimeoutError: localhost:27017: [Errno 111] Connection refused"
StoreErrors == {"timeout", LongError}

\* str(e)[:50]
Prefix50(msg) ==
    IF msg = LongError
    THEN "ServerSelectionTimeoutError: localhost:27017: [Err"
    ELSE msg

\* What one store round trip can do: answer ("ok") or raise.
StoreOutcomes(dbh) ==
    IF dbh = "none" THEN {NoDatabase} ELSE {"ok"} \cup StoreErrors

Matching(collection, email) ==
    { i \in 1..Len(collection) : collection[i].email = email }

\* get_documents(collection, {"email": email}, limit=1): the possible results,
\* at most one document, any of those that match.
get_documents(collection, email) ==
    IF Matching(collection, email) = {}
    THEN { <<>> }
    ELSE { <<collection[i]>> : i \in Matching(collection, email) }

create_document(collection, doc) == Append(collection, doc)

\* -------------------------------------------------------- responses
NoBody == [kind |-> "none"]

HTTPException(status_code, detail) ==
    [status |-> status_code, detail |-> detail, token |-> NoToken, body |-> NoBody]

\* An exception no handler catches: the framework's plain 500.
UnhandledError == HTTPException(500, "Internal Server Error")

\* A body the request model rejects never reaches the handler.
ValidationError == HTTPException(422, "value is not a valid email address")

\* OAuth2PasswordBearer(tokenUrl=...) with no Authorization header.
NotAuthenticated == HTTPException(401, "Not authenticated")

credentials_exception == HTTPException(401, "Could not validate credentials")

Ok(body) == [status |-> 200, detail |-> "", token |-> NoToken, body |-> body]

\* Token(access_token=..., token_type="bearer")
Token(access_token) ==
    [status |-> 200, detail |-> "", token |-> access_token,
     body |-> [kind |-> "token", token_type |-> "bearer"]]

NoResp == [status |-> 0, detail |-> "", token |-> NoToken, body |-> NoBody]

\* ------------------------------------------------------------ state
VARIABLES
    users,      \* collection "agencyuser"
    contacts,   \* collection "contactmessage"
    db,         \* the store handle: "none" or "handle"
    now,        \* the clock, in minutes
    pending,    \* per worker: the request it is in the middle of
    last        \* the request completed most recently

vars == <<users, contacts, db, now, pending, last>>

NoInput ==
    [email |-> <<>>, password |-> "", token |-> NoToken, delta |-> NoDelta, at |-> 0]

Idle == [pc |-> "idle", input |-> NoInput]

NoEvent ==
    [slot |-> 0, op |-> "none", input |-> NoInput, exit |-> "none", resp |-> NoResp]

\* Worker r completes a request: what it was, where the handler left, and the
\* response.
Done(r, op, input, exit, resp) ==
    [slot |-> r, op |-> op, input |-> input, exit |-> exit, resp |-> resp]

\* A worker takes up a request only once the previous response has left.
Free(r) == pending[r].pc = "idle" /\ last = NoEvent

Init ==
    /\ users = <<>>
    /\ contacts = <<>>
    /\ db \in {"none", "handle"}
    /\ now = 0
    /\ pending = [r \in Slots |-> Idle]
    /\ last = NoEvent

InFlight == { s \in Slots : pending[s].pc = "insert" }

\* ---------------------------------------------------------- /contact
\* ContactIn: name, email (EmailStr), message.
ContactIn(name, raw, message) ==
    IF EmailStr(raw) = Invalid
    THEN Invalid
    ELSE <<[name |-> name, email |-> EmailStr(raw), message |-> message]>>

contact_error(e) == HTTPException(500, e)

Contact(r) ==
    /\ Free(r)
    /\ \E raw \in ContactEmails :
        LET input == [NoInput EXCEPT !.email = raw]
            message == ContactIn("name", raw, "message")
        IN IF message = Invalid
           THEN /\ last' = Done(r, "contact", input, "invalid_body", ValidationError)
                /\ UNCHANGED contacts
           ELSE /\ Len(contacts) < MaxContacts
                /\ \E out \in StoreOutcomes(db) :
                    IF out = "ok"
                    THEN /\ contacts' = create_document(contacts, message[1])
                         /\ last' = Done(r, "contact", input, "ok",
                                Ok([kind |-> "ack", ok |-> TRUE, received |-> TRUE]))
                    ELSE /\ UNCHANGED contacts
                         /\ last' = Done(r, "contact", input, "store_error",
                                         contact_error(out))
    /\ UNCHANGED <<users, db, now, pending>>

\* ----------------------------------------------------- /auth/register
\* A check that never finds the record.
RegisterExists_Never(existing) == FALSE

\* Line 147: if existing
RegisterExists(existing) == existing # <<>>

EmailTaken == HTTPException(400, "Email already registered")

\* Lines 144-148: the existence check.
RegisterCheck(r) ==
    /\ Free(r)
    /\ \E email \in AuthEmails, password \in Passwords, out \in StoreOutcomes(db) :
        LET input == [NoInput EXCEPT !.email = email, !.password = password]
        IN IF out # "ok"
           THEN /\ last' = Done(r, "register", input, "store_error", UnhandledError)
                /\ UNCHANGED pending
           ELSE \E existing \in get_documents(users, email) :
                IF RegisterExists(existing)
                THEN /\ last' = Done(r, "register", input, "email_taken", EmailTaken)
                     /\ UNCHANGED pending
                ELSE /\ Len(users) + Cardinality(InFlight) < MaxUsers
                     /\ pending' = [pending EXCEPT ![r] =
                            [pc |-> "insert", input |-> input]]
                     /\ UNCHANGED last
    /\ UNCHANGED <<users, contacts, db, now>>

UserDoc(email, password_hash) ==
    [email |-> email, password_hash |-> password_hash, name |-> LocalPart(email)]

\* The insert as a store with a unique index on email would do it.
RegisterWrite_Unique(collection, doc) ==
    IF Matching(collection, doc.email) = {} THEN create_document(collection, doc)
    ELSE collection

\* Line 150: create_document("agencyuser", {...})
RegisterWrite(collection, doc) == create_document(collection, doc)

\* A register that swallows the failure and goes on to issue the token.
register_failure_Token(email, t) == Token(create_access_token(email, NoDelta, t))

\* register has no try/except: what create_document raises reaches the
\* framework.
register_failure(email, t) == UnhandledError

\* Lines 149-152: hash, insert, issue the token.
RegisterInsert(r) ==
    /\ pending[r].pc = "insert"
    /\ last = NoEvent
    /\ LET input == pending[r].input
       IN \E salt \in Salts, out \in StoreOutcomes(db) :
            IF out = "ok"
            THEN /\ users' = RegisterWrite(users,
                        UserDoc(input.email, get_password_hash(input.password, salt)))
                 /\ last' = Done(r, "register", input, "ok",
                        Token(create_access_token(input.email, NoDelta, now)))
            ELSE /\ UNCHANGED users
                 /\ last' = Done(r, "register", input, "store_error",
                                 register_failure(input.email, now))
    /\ pending' = [pending EXCEPT ![r] = Idle]
    /\ UNCHANGED <<contacts, db, now>>

\* -------------------------------------------------------- /auth/login
\* A login that tells an unknown email apart.
login_absent_Leaky == HTTPException(404, "User not found")

\* Line 161: no user for the email.
login_absent == HTTPException(400, "Invalid credentials")

\* Line 164: the password does not verify.
login_bad_password == HTTPException(400, "Invalid credentials")

\* A login that records each attempt.
LoginWrites_Audit ==
    /\ Len(contacts) < MaxContacts
    /\ contacts' = create_document(contacts,
            [name |-> "login", email |-> <<"a", "x.com">>, message |-> "seen"])
    /\ UNCHANGED users

\* What login does to the collections: nothing (it calls no create_document).
LoginWrites == UNCHANGED <<users, contacts>>

Login(r) ==
    /\ Free(r)
    /\ \E email \in AuthEmails, password \in Passwords, out \in StoreOutcomes(db) :
        LET input == [NoInput EXCEPT !.email = email, !.password = password]
        IN IF out # "ok"
           THEN last' = Done(r, "login", input, "store_error", UnhandledError)
           ELSE \E user \in get_documents(users, email) :
                IF user = <<>>
                THEN last' = Done(r, "login", input, "no_user", login_absent)
                ELSE IF ~verify_password(password, user[1].password_hash)
                THEN last' = Done(r, "login", input, "bad_password", login_bad_password)
                ELSE last' = Done(r, "login", input, "ok",
                                  Token(create_access_token(email, NoDelta, now)))
    /\ LoginWrites
    /\ UNCHANGED <<db, now, pending>>

\* ---------------------------------------------------------------- /me
\* Expiry times a presented token may carry: already past, now, and what
\* create_access_token gives a token issued at any time up to now.
ExpInputs(t) ==
    ({t - 1, t} \cap Nat) \cup { i + ACCESS_TOKEN_EXPIRE_MINUTES : i \in 0..t }

\* A token whose subject was altered after signing.
Tampered(t) ==
    [Encode(<<"a", "x.com">>, t + ACCESS_TOKEN_EXPIRE_MINUTES, SECRET_KEY)
        EXCEPT !.sub = <<"b", "x.com">>]

\* What a client may present: nothing, garbage, a tampered token, a token
\* signed with another key, and tokens under the service's key.
TokenInputs(t) ==
    {NoToken, Malformed, Tampered(t)}
    \cup { Encode(sub, t + ACCESS_TOKEN_EXPIRE_MINUTES, OtherKey) : sub \in AuthEmails }
    \cup { Encode(sub, exp, SECRET_KEY) :
             sub \in AuthEmails \cup {NoSub}, exp \in ExpInputs(t) }

\* Lines 79-85 of get_current_user: the subject the token verifies to, or
\* NoSub when the credentials exception is raised.
token_subject(token, t) ==
    IF jwt_decode_ok(token, t) THEN token.sub ELSE NoSub

\* Line 88: if not users
me_no_user == credentials_exception

\* Line 171: {"email": ..., "name": ...}
me_body(current_user) ==
    [kind |-> "user", email |-> current_user.email, name |-> current_user.name]

Me(r) ==
    /\ Free(r)
    /\ \E token \in TokenInputs(now) :
        LET input == [NoInput EXCEPT !.token = token]
        IN IF token.kind = "none"
           THEN last' = Done(r, "me", input, "no_token", NotAuthenticated)
           ELSE IF ~jwt_decode_ok(token, now)
           THEN last' = Done(r, "me", input, "bad_token", credentials_exception)
           ELSE IF token.sub = NoSub
           THEN last' = Done(r, "me", input, "no_sub", credentials_exception)
           ELSE \E out \in StoreOutcomes(db) :
                IF out # "ok"
                THEN last' = Done(r, "me", input, "store_error", UnhandledError)
                ELSE \E found \in get_documents(users, token.sub) :
                     IF found = <<>>
                     THEN last' = Done(r, "me", input, "no_user", me_no_user)
                     ELSE last' = Done(r, "me", input, "ok", Ok(me_body(found[1])))
    /\ UNCHANGED <<users, contacts, db, now, pending>>

\* -------------------------------------------------------------- /test
Take10(l) == SubSeq(l, 1, IF Len(l) < 10 THEN Len(l) ELSE 10)

\* db.list_collection_names(): the collections that hold a document.
CollectionNames ==
    (IF users # <<>> THEN <<"agencyuser">> ELSE <<>>)
    \o (IF contacts # <<>> THEN <<"contactmessage">> ELSE <<>>)

StatusBody(database, connection_status, collections, urlSet, nameSet) ==
    [kind |-> "status",
     backend |-> "Running",
     database |-> database,
     database_url |-> IF urlSet THEN "Set" ELSE "Not Set",
     database_name |-> IF nameSet THEN "Set" ELSE "Not Set",
     connection_status |-> connection_status,
     collections |-> collections]

\* A health check without its try/except blocks.
test_database_Uncaught(dbh, nameOut, listOut, names, urlSet, nameSet) ==
    IF dbh # "none" /\ (nameOut # "ok" \/ listOut # "ok")
    THEN UnhandledError
    ELSE Ok(StatusBody(<<"Connected & Working", "">>, "Connected",
                       Take10(names), urlSet, nameSet))

\* Lines 176-203.  nameOut and listOut are what db.name and
\* db.list_collection_names() do: "ok" or the message of what they raise;
\* urlSet and nameSet, whether DATABASE_URL and DATABASE_NAME are set.
test_database(dbh, nameOut, listOut, names, urlSet, nameSet) ==
    IF dbh = "none"
    THEN Ok(StatusBody(<<"Available but not initialized", "">>, "Not Connected",
                       <<>>, urlSet, nameSet))
    ELSE IF nameOut # "ok"
    THEN Ok(StatusBody(<<"Error: ", Prefix50(nameOut)>>, "Not Connected",
                       <<>>, urlSet, nameSet))
    ELSE IF listOut # "ok"
    THEN Ok(StatusBody(<<"Connected but Error: ", Prefix50(listOut)>>, "Connected",
                       <<>>, urlSet, nameSet))
    ELSE Ok(StatusBody(<<"Connected & Working", "">>, "Connected",
                       Take10(names), urlSet, nameSet))

TestDatabase(r) ==
    /\ Free(r)
    /\ \E nameOut \in {"ok", "timeout"}, listOut \in StoreOutcomes(db),
          urlSet \in BOOLEAN, nameSet \in BOOLEAN :
        last' = Done(r, "test", NoInput,
                 IF db = "none" THEN "no_db"
                 ELSE IF nameOut # "ok" THEN "name_error"
                 ELSE IF listOut # "ok" THEN "list_error" ELSE "ok",
                 test_database(db, nameOut, listOut, CollectionNames, urlSet, nameSet))
    /\ UNCHANGED <<users, contacts, db, now, pending>>

\* ------------------------------------------------------- environment
\* The response leaves.
Reply ==
    /\ last # NoEvent
    /\ last' = NoEvent
    /\ UNCHANGED <<users, contacts, db, now, pending>>

Tick ==
    /\ now < MaxTime
    /\ now' = now + 1
    /\ UNCHANGED <<users, contacts, db, pending, last>>

Next ==
    \/ Tick
    \/ Reply
    \/ \E r \in Slots :
        \/ Contact(r)
        \/ RegisterCheck(r)
        \/ RegisterInsert(r)
        \/ Login(r)
        \/ Me(r)
        \/ TestDatabase(r)

Spec == Init /\ [][Next]_vars

\* Requests one at a time: a handler starts only when none is in flight.
Quiet == InFlight = {}

NextSeq ==
    \/ Tick
    \/ Reply
    \/ \E r \in Slots :
        \/ Quiet /\ Contact(r)
        \/ Quiet /\ RegisterCheck(r)
        \/ RegisterInsert(r)
        \/ Quiet /\ Login(r)
        \/ Quiet /\ Me(r)
        \/ Quiet /\ TestDatabase(r)

SpecSeq == Init /\ [][NextSeq]_vars

\* ------------------------------------------- token issue and verify
\* create_access_token and the decoding of get_current_user on their own:
\* a token is issued for a subject with an optional expires_delta, time
\* passes, and the token is verified.
Deltas == {NoDelta, 0, 1, MaxSkew}

Issue(r) ==
    /\ pending[r].pc = "idle"
    /\ \E sub \in AuthEmails, delta \in Deltas :
        pending' = [pending EXCEPT ![r] =
            [pc |-> "issued",
             input |-> [NoInput EXCEPT !.email = sub, !.delta = delta, !.at = now,
                            !.token = create_access_token(sub, delta, now)]]]
    /\ UNCHANGED <<users, contacts, db, now, last>>

Verify(r) ==
    /\ pending[r].pc = "issued"
    /\ last = NoEvent
    /\ LET input == pending[r].input
       IN last' =
            IF token_subject(input.token, now) = NoSub
            THEN Done(r, "token", input, "bad_token", credentials_exception)
            ELSE Done(r, "token", input, "ok",
                      Ok([kind |-> "subject", sub |-> token_subject(input.token, now)]))
    /\ pending' = [pending EXCEPT ![r] = Idle]
    /\ UNCHANGED <<users, contacts, db, now>>

\* The clock moves by a minute or by a day, within MaxSkew minutes of either.
TickMinute ==
    /\ now % ACCESS_TOKEN_EXPIRE_MINUTES < MaxSkew
    /\ now' = now + 1
    /\ UNCHANGED <<users, contacts, db, pending, last>>

TickDay ==
    /\ now + ACCESS_TOKEN_EXPIRE_MINUTES <= ACCESS_TOKEN_EXPIRE_MINUTES + MaxSkew
    /\ now' = now + ACCESS_TOKEN_EXPIRE_MINUTES
    /\ UNCHANGED <<users, contacts, db, pending, last>>

NextToken ==
    \/ TickMinute
    \/ TickDay
    \/ Reply
    \/ \E r \in Slots : Issue(r) \/ Verify(r)

SpecToken == Init /\ [][NextToken]_vars

\* =========================================================== claims
\* A step in which a request of kind op completes.
Completed(op) == last = NoEvent /\ last' # NoEvent /\ last'.op = op

\* A step in which a request of kind op is taken up and completes at once.
Handled(op) == Completed(op) /\ pending' = pending

HasRecord(email) == Matching(users, email) # {}

\* A record that a successful Register(email, password) left behind.
Registered(email, password) ==
    \E i \in 1..Len(users) :
        /\ users[i].email = email
        /\ users[i].password_hash.digest = <<users[i].password_hash.salt, password>>

UniqueEmails ==
    \A i, j \in 1..Len(users) : users[i].email = users[j].email => i = j

\* C1: with Register requests handled one at a time, a Register for an email
\* that already has a user record answers 400 "Email already registered",
\* returns no token and writes nothing, and the user collection never holds
\* two records for one email.
C1_SequentialRegisterUnique ==
    /\ []UniqueEmails
    /\ [][/\ (Handled("register") /\ HasRecord(last'.input.email)
                /\ last'.exit # "store_error")
             => /\ last'.resp.status = 400
                /\ last'.resp.detail = "Email already registered"
                /\ last'.resp.token = NoToken
                /\ users' = users
          /\ \A r \in Slots :
                (pending[r].pc = "idle" /\ pending'[r].pc = "insert")
                => ~HasRecord(pending'[r].input.email)]_vars

C1_Witness ==
    /\ last.op = "register"
    /\ last.resp.status = 400
    /\ Cardinality(Matching(users, last.input.email)) = 1

\* C2: a Register that passed the existence check inserts its record and
\* returns a token whatever the collection holds by then: the insert does not
\* look again.  Of two interleaved requests for one email, both past the
\* check, the second to insert therefore also succeeds and leaves a second
\* record.
C2_InsertDoesNotRecheck ==
    [][\A r \in Slots :
        (pending[r].pc = "insert" /\ pending'[r].pc = "idle"
            /\ last'.exit # "store_error")
        => /\ Len(users') = Len(users) + 1
           /\ SubSeq(users', 1, Len(users)) = users
           /\ users'[Len(users')].email = pending[r].input.email
           /\ last'.op = "register"
           /\ last'.resp.status = 200
           /\ last'.resp.token.kind = "jwt"
           /\ last'.resp.token.sub = pending[r].input.email]_vars

C2_Witness ==
    /\ last.op = "register"
    /\ last.resp.status = 200
    /\ last.resp.token.kind = "jwt"
    /\ Cardinality(Matching(users, last.input.email)) = 2

\* C3: once Register(email, password) has succeeded, a Login with that email
\* and password answers 200 with a token whose subject is the email, and a
\* Login with that email and another password answers 400 "Invalid
\* credentials" (a Login whose store lookup itself failed aside).
C3_RegisterThenLogin ==
    [][(Completed("login") /\ last'.exit # "store_error")
        => LET email == last'.input.email
               password == last'.input.password
               resp == last'.resp
           IN /\ Registered(email, password)
                 => /\ resp.status = 200
                    /\ resp.token.kind = "jwt"
                    /\ resp.token.sub = email
              /\ \A other \in Passwords \ {password} :
                    Registered(email, other)
                    => /\ resp.status = 400
                       /\ resp.detail = "Invalid credentials"]_vars

\* C4: GET /me answers 401 for a missing, malformed, expired, wrongly signed
\* or subject-less token and for a subject with no user record, and answers
\* 200 with the stored email and name for a valid token of a registered user
\* (a lookup the store itself failed aside).
Unverifiable(token, t) ==
    \/ token.kind # "jwt"
    \/ token.exp < t
    \/ token.sig.key # SECRET_KEY
    \/ token.sig.sub # token.sub
    \/ token.sig.exp # token.exp
    \/ token.sub = NoSub

C4_CurrentUser ==
    [][Completed("me")
        => LET token == last'.input.token
               resp == last'.resp
           IN /\ Unverifiable(token, now) => resp.status = 401
              /\ (~Unverifiable(token, now) /\ last'.exit # "store_error")
                 => IF HasRecord(token.sub)
                    THEN /\ resp.status = 200
                         /\ \E i \in Matching(users, token.sub) :
                              /\ resp.body.kind = "user"
                              /\ resp.body.email = users[i].email
                              /\ resp.body.name = users[i].name
                    ELSE resp.status = 401]_vars

C4_Witness ==
    /\ last.op = "me"
    /\ last.resp.status = 200
    /\ last.resp.body.email = <<"a", "x.com">>
    /\ last.resp.body.name = "a"
    /\ now > 0
    /\ last.input.token = create_access_token(<<"a", "x.com">>, NoDelta, now - 1)

\* C5: every Login that is refused gets one and the same response, 400
\* "Invalid credentials" and nothing else, whether the email has no record
\* or the password does not verify.
RefusedLogin ==
    [status |-> 400, detail |-> "Invalid credentials", token |-> NoToken,
     body |-> [kind |-> "none"]]

C5_LoginFailuresIdentical ==
    [][Completed("login")
        => /\ (~HasRecord(last'.input.email) /\ last'.exit # "store_error")
              => last'.resp = RefusedLogin
           /\ (HasRecord(last'.input.email)
                 /\ ~Registered(last'.input.email, last'.input.password)
                 /\ last'.exit # "store_error")
              => last'.resp = RefusedLogin
           /\ last'.resp.status \notin {200, 500}
              => last'.resp = RefusedLogin]_vars

C5_Witness ==
    /\ last.op = "login"
    /\ last.resp = RefusedLogin
    /\ HasRecord(last.input.email)
    /\ ~Registered(last.input.email, last.input.password)

FailureDetails == StoreErrors \cup {NoDatabase}

\* C6 as stated: a storage failure during Register answers 500 with the
\* failure detail, as /contact does, and returns no token.
C6_RegisterFailureCarriesDetail ==
    (last.op \in {"register", "contact"} /\ last.exit = "store_error")
    => /\ last.resp.status = 500
       /\ last.resp.detail \in FailureDetails
       /\ last.resp.token = NoToken

\* C6 as amended: a storage failure during Register, on the lookup or on the
\* insert, answers the framework's plain 500 "Internal Server Error", without
\* the failure detail, returns no token and writes nothing; a storage failure
\* during /contact answers 500 with the failure detail.
C6_RegisterFailureIsPlain500 ==
    /\ last.exit = "store_error"
       => /\ last.op = "register"
             => /\ last.resp.status = 500
                /\ last.resp.detail = "Internal Server Error"
                /\ last.resp.detail \notin FailureDetails
                /\ last.resp.token = NoToken
          /\ last.op = "contact"
             => /\ last.resp.status = 500
                /\ last.resp.detail \in FailureDetails
                /\ last.resp.token = NoToken
    /\ (last.op = "register" /\ last.resp.token # NoToken)
       => (last.exit = "ok" /\ HasRecord(last.input.email))

C6_Witness ==
    /\ last.op = "register"
    /\ last.exit = "store_error"
    /\ db = "handle"
    /\ last.resp.status = 500
    /\ last.resp.detail = "Internal Server Error"
    /\ ~HasRecord(last.input.email)

\* C7: a token verifies to its subject when verified at its issue time, and
\* no longer verifies after its expiry, the issue time plus the given TTL or,
\* when none is given, plus the 24-hour default.
C7_TokenExpiry ==
    [][\A r \in Slots :
        (pending[r].pc = "issued" /\ pending'[r].pc = "idle")
        => LET input == pending[r].input
               expiry == input.at + (IF input.delta = NoDelta
                                     THEN ACCESS_TOKEN_EXPIRE_MINUTES
                                     ELSE input.delta)
               resp == last'.resp
           IN /\ now = input.at
                 => resp.status = 200 /\ resp.body.sub = input.email
              /\ now > expiry => resp.status = 401]_vars

\* C8: a /contact whose email is not a well-formed address answers 422 and
\* leaves the contactmessage collection as it was; the collection holds only
\* messages with well-formed addresses.
WellFormed(raw) ==
    /\ Len(raw) = 2
    /\ raw[1] # ""
    /\ raw[2] \in {"x.com", "X.COM"}

C8_InvalidContactNotStored ==
    /\ [](\A i \in 1..Len(contacts) : WellFormed(contacts[i].email))
    /\ [][(Completed("contact") /\ ~WellFormed(last'.input.email))
            => /\ last'.resp.status = 422
               /\ contacts' = contacts]_vars

C8_Witness ==
    /\ last.op = "contact"
    /\ ~WellFormed(last.input.email)
    /\ last.resp.status = 422
    /\ db = "handle"
    /\ contacts = <<>>

\* C9: GET /test always answers 200 with a status object; an absent handle
\* and a failing collection listing show in its "database" string.
C9_HealthCheckNeverRaises ==
    last.op = "test"
    => /\ last.resp.status = 200
       /\ last.resp.body.kind = "status"
       /\ last.exit = "no_db"
          => last.resp.body.database = <<"Available but not initialized", "">>
       /\ last.exit = "ok"
          => last.resp.body.database = <<"Connected & Working", "">>
       /\ last.exit = "list_error"
          => /\ last.resp.body.database[1] = "Connected but Error: "
             /\ last.resp.body.database[2] \in { Prefix50(e) : e \in FailureDetails }
       /\ last.exit = "name_error"
          => last.resp.body.database[1] = "Error: "

C9_Witness ==
    /\ last.op = "test"
    /\ last.exit = "list_error"
    /\ last.resp.status = 200
    /\ last.resp.body.database[2] # LongError
    /\ last.resp.body.database[2] = Prefix50(LongError)

\* C10: a Login or /me step changes neither collection; the user collection
\* changes only by one document appended by a Register past its check, and
\* the contact collection only by one document appended by a /contact with a
\* well-formed address.
C10_OnlyRegisterAndContactWrite ==
    [][/\ (Completed("login") \/ Completed("me"))
          => (users' = users /\ contacts' = contacts)
       /\ users' # users
          => \E r \in Slots :
                /\ pending[r].pc = "insert" /\ pending'[r].pc = "idle"
                /\ last'.op = "register"
                /\ last'.resp.status = 200
                /\ Len(users') = Len(users) + 1
                /\ SubSeq(users', 1, Len(users)) = users
                /\ users'[Len(users')].email = pending[r].input.email
                /\ contacts' = contacts
       /\ contacts' # contacts
          => /\ Handled("contact")
             /\ WellFormed(last'.input.email)
             /\ last'.resp.status = 200
             /\ Len(contacts') = Len(contacts) + 1
             /\ SubSeq(contacts', 1, Len(contacts)) = contacts
             /\ users' = users]_vars

C10_Witness ==
    /\ last.op = "login"
    /\ last.resp.status = 200
    /\ Len(users) = 1
    /\ contacts = <<>>

====
